---- MODULE Spec2Model ----
(***************************************************************************)
(* Model of package fstr (Interpolate / preprocess / formatNumber).        *)
(*                                                                         *)
(* Strings are sequences of one-character strings.  A float64 is a record  *)
(* [kind |-> "float", neg, ip, fr]: sign, integer part and fraction in     *)
(* thousandths.  The values drawn are dyadic (fr a multiple of 125) or the *)
(* template constant 0.7, so that the decimal written here is the exact    *)
(* decimal fmt rounds, and a tie is a tie of the binary value.             *)
(***************************************************************************)
EXTENDS Integers, Sequences, FiniteSets, TLC

\* ------------------------------------------------------------------ bounds
MaxSegs == 2        \* template length, in segments
MaxCalls == 2       \* calls of Interpolate on the same table

\* ------------------------------------------------------- characters, strings
Digits == <<"0", "1", "2", "3", "4", "5", "6", "7", "8", "9">>

DigitSet == {Digits[i] : i \in 1..10}

\* the letters of [a-zA-Z_] that occur in the templates drawn and in the
\* text preprocess emits
LetterSet == {"a", "b", "c", "e", "f", "k", "m", "o", "r", "s", "t", "u", "x", "N", "_"}

\* the regular expression's class [a-zA-Z0-9_]
IdentSet == LetterSet \cup DigitSet

DigitVal(c) == CHOOSE d \in 0..9 : Digits[d + 1] = c

Min(S) == CHOOSE x \in S : \A y \in S : x <= y

\* first index >= i of s whose character is outside set (Len(s)+1 if none)
RunEnd(s, i, set) ==
    IF i > Len(s) THEN i
    ELSE Min({j \in i..(Len(s) + 1) : j = Len(s) + 1 \/ s[j] \notin set})

\* first index >= i where the two characters a b start (0 if none)
IndexOf2(s, i, a, b) ==
    LET J == {j \in i..(Len(s) - 1) : s[j] = a /\ s[j + 1] = b}
    IN IF J = {} THEN 0 ELSE Min(J)

Contains(s, c) == \E i \in 1..Len(s) : s[i] = c

RECURSIVE Concat(_)
Concat(ss) == IF ss = <<>> THEN <<>> ELSE Head(ss) \o Concat(Tail(ss))

\* strings.Split(s, sep) for a one-character separator
RECURSIVE Split(_, _)
Split(s, sep) ==
    LET J == {j \in 1..Len(s) : s[j] = sep}
    IN IF J = {} THEN <<s>>
       ELSE <<SubSeq(s, 1, Min(J) - 1)>> \o Split(SubSeq(s, Min(J) + 1, Len(s)), sep)

RECURSIVE Pow10(_)
Pow10(n) == IF n = 0 THEN 1 ELSE 10 * Pow10(n - 1)

\* decimal digits of a natural number
RECURSIVE Dec(_)
Dec(n) == IF n < 10 THEN <<Digits[n + 1]>> ELSE Dec(n \div 10) \o <<Digits[(n % 10) + 1]>>

\* n written with exactly w digits (leading zeros)
RECURSIVE DecPad(_, _)
DecPad(n, w) == IF w = 0 THEN <<>> ELSE DecPad(n \div 10, w - 1) \o <<Digits[(n % 10) + 1]>>

RECURSIVE Zeros(_)
Zeros(n) == IF n <= 0 THEN <<>> ELSE <<"0">> \o Zeros(n - 1)

RECURSIVE StripZeros(_)
StripZeros(s) ==
    IF s # <<>> /\ s[Len(s)] = "0" THEN StripZeros(SubSeq(s, 1, Len(s) - 1)) ELSE s

\* strconv.Atoi of a digit string, as fmt reads the precision of "%.Nf"
RECURSIVE ParsePrec(_)
ParsePrec(ds) ==
    IF ds = <<>> THEN 0 ELSE 10 * ParsePrec(SubSeq(ds, 1, Len(ds) - 1)) + DigitVal(ds[Len(ds)])

\* ----------------------------------------------------------------- values
Absent == [kind |-> "absent"]

IntVal(n) == [kind |-> "int", n |-> n]

\* an integer of a type other than int (int64, int32, uint, ...)
Int64Val(n) == [kind |-> "int64", n |-> n]

FloatVal(neg, ip, fr) == [kind |-> "float", neg |-> neg, ip |-> ip, fr |-> fr]

StrVal(s) == [kind |-> "string", s |-> s]

Abs(n) == IF n < 0 THEN 0 - n ELSE n

\* float64(v.(int))
ToFloat64(v) == FloatVal(v.n < 0, Abs(v.n), 0)

\* the fraction fr (thousandths) rounded to N < 3 digits, half to even on the
\* exact value: the rounded digits as a number, 10^N when the rounding carries
RoundFrac(ip, fr, N, d) ==
    IF 2 * (fr % d) > d
       \/ (2 * (fr % d) = d /\ (IF N = 0 THEN ip % 2 = 1 ELSE (fr \div d) % 2 = 1))
    THEN (fr \div d) + 1
    ELSE fr \div d

FixedDigits(neg, ip, N, q) ==
    (IF neg THEN <<"-">> ELSE <<>>)
    \o Dec(IF q = Pow10(N) THEN ip + 1 ELSE ip)
    \o (IF N > 0 THEN <<".">> \o DecPad(IF q = Pow10(N) THEN 0 ELSE q, N) ELSE <<>>)

\* fmt.Sprintf("%.Nf", value): N decimals, round half to even on the exact value
SprintfFixed(value, N) ==
    IF N >= 3
    THEN (IF value.neg THEN <<"-">> ELSE <<>>) \o Dec(value.ip) \o <<".">>
         \o DecPad(value.fr, 3) \o Zeros(N - 3)
    ELSE FixedDigits(value.neg, value.ip, N, RoundFrac(value.ip, value.fr, N, Pow10(3 - N)))

\* the %e form of the digits digs with decimal exponent exp
FormatE(sign, digs, exp) ==
    sign \o <<Head(digs)>>
    \o (IF Len(digs) > 1 THEN <<".">> \o Tail(digs) ELSE <<>>)
    \o <<"e", "+">> \o DecPad(exp, 2)

\* the %f form with the fraction digits fracDigs
FormatF(sign, ip, fracDigs) ==
    sign \o Dec(ip) \o (IF fracDigs # <<>> THEN <<".">> \o fracDigs ELSE <<>>)

FormatDigits(sign, ip, intDigs, fracDigs) ==
    IF ip # 0 /\ Len(intDigs) - 1 >= 6
    THEN FormatE(sign, StripZeros(intDigs \o fracDigs), Len(intDigs) - 1)
    ELSE FormatF(sign, ip, fracDigs)

\* fmt's %v of a float64: strconv 'g' with the shortest digits; %e when the
\* decimal exponent is < -4 or >= 6 (the shortest-precision threshold)
FormatG(value) ==
    FormatDigits(IF value.neg THEN <<"-">> ELSE <<>>, value.ip,
                 IF value.ip = 0 THEN <<>> ELSE Dec(value.ip),
                 StripZeros(DecPad(value.fr, 3)))

\* ------------------------------------------------------------ formatNumber
\* the loop "for i := len(intPart) - 3; i > 0; i -= 3" of formatNumber
\* the loop running while i >= 0: a separator also before the first group
RECURSIVE GroupLoopLeading(_, _)
GroupLoopLeading(intPart, i) ==
    IF i >= 0
    THEN GroupLoopLeading(SubSeq(intPart, 1, i) \o <<",">> \o SubSeq(intPart, i + 1, Len(intPart)),
                          i - 3)
    ELSE intPart

RECURSIVE GroupLoop(_, _)
GroupLoop(intPart, i) ==
    IF i > 0
    THEN GroupLoop(SubSeq(intPart, 1, i) \o <<",">> \o SubSeq(intPart, i + 1, Len(intPart)), i - 3)
    ELSE intPart

Panic(msg) == [panic |-> TRUE, msg |-> msg, s |-> <<>>]

Returns(s) == [panic |-> FALSE, msg |-> "", s |-> s]

\* the branch for grouping with precision, on the rendered number split at "."
GroupedParts(parts) ==
    IF Len(parts) < 2
    THEN Panic("index out of range")
    ELSE Returns(GroupLoop(parts[1], Len(parts[1]) - 3) \o <<".">> \o parts[2])

GroupedInt(intPart) == Returns(GroupLoop(intPart, Len(intPart) - 3))

FormatBranches(value, formatParts) ==
    IF Contains(formatParts[1], ",") /\ Len(formatParts) = 1
    THEN GroupedInt(SprintfFixed(value, 0))
    ELSE IF Contains(formatParts[1], ",") /\ Len(formatParts) = 2
    THEN GroupedParts(Split(SprintfFixed(value, ParsePrec(formatParts[2])), "."))
    ELSE IF ~Contains(formatParts[1], ",") /\ Len(formatParts) = 2
    THEN Returns(SprintfFixed(value, ParsePrec(formatParts[2])))
    ELSE Panic("Invalid format")

formatNumber(value, format) == FormatBranches(value, Split(format, "."))

\* --------------------------------------------------------------- preprocess
At(s, j) == IF j >= 1 /\ j <= Len(s) THEN s[j] ELSE ""

NoMatch == [ok |-> FALSE, m1 |-> <<>>, m2 |-> <<>>, m3 |-> <<>>, m4 |-> <<>>, m5 |-> <<>>, end |-> 0]

Submatch(m1, m2, m3, m4, m5, end) ==
    [ok |-> TRUE, m1 |-> m1, m2 |-> m2, m3 |-> m3, m4 |-> m4, m5 |-> m5, end |-> end]

\* the match of
\*   {([a-zA-Z0-9_]+)(=)?(?::(,|\.([0-9]+)f|,\.([0-9]+)f))?}
\* that starts at index i of s, with its capture groups m1..m5 and the index
\* after its closing brace.  The classes that follow one another are disjoint,
\* so the greedy runs are the only way to match.
MatchSpec(s, m1, m2, c, d4, d5) ==
    IF At(s, c) = "," /\ At(s, c + 1) = "}"
    THEN Submatch(m1, m2, <<",">>, <<>>, <<>>, c + 2)
    ELSE IF At(s, c) = "." /\ d4 > c + 1 /\ At(s, d4) = "f" /\ At(s, d4 + 1) = "}"
    THEN Submatch(m1, m2, SubSeq(s, c, d4), SubSeq(s, c + 1, d4 - 1), <<>>, d4 + 2)
    ELSE IF At(s, c) = "," /\ At(s, c + 1) = "." /\ d5 > c + 2 /\ At(s, d5) = "f"
            /\ At(s, d5 + 1) = "}"
    THEN Submatch(m1, m2, SubSeq(s, c, d5), <<>>, SubSeq(s, c + 2, d5 - 1), d5 + 2)
    ELSE NoMatch

MatchTail(s, m1, m2, e2) ==
    IF At(s, e2) = "}" THEN Submatch(m1, m2, <<>>, <<>>, <<>>, e2 + 1)
    ELSE IF At(s, e2) # ":" THEN NoMatch
    ELSE MatchSpec(s, m1, m2, e2 + 1, RunEnd(s, e2 + 2, DigitSet), RunEnd(s, e2 + 3, DigitSet))

MatchIdent(s, i, e1) ==
    IF e1 = i + 1 THEN NoMatch
    ELSE IF At(s, e1) = "=" THEN MatchTail(s, SubSeq(s, i + 1, e1 - 1), <<"=">>, e1 + 1)
    ELSE MatchTail(s, SubSeq(s, i + 1, e1 - 1), <<>>, e1)

MatchAt(s, i) ==
    IF At(s, i) # "{" THEN NoMatch ELSE MatchIdent(s, i, RunEnd(s, i + 1, IdentSet))

FormatNumberName == <<"f", "o", "r", "m", "a", "t", "N", "u", "m", "b", "e", "r">>

\* "{{.key}}"
FieldAction(key) == <<"{", "{", ".">> \o key \o <<"}", "}">>

\* "{{formatNumber .key \"directive\"}}"
CallAction(key, directive) ==
    <<"{", "{">> \o FormatNumberName \o <<" ", ".">> \o key \o <<" ", "\"">> \o directive
    \o <<"\"", "}", "}">>

\* Replacement with a slip in the echo branch: the precision-only case emits
\* the grouping directive as well
ReplacementEchoSlip(matches) ==
    IF matches.m2 = <<"=">>
    THEN matches.m1 \o <<"=">> \o
         (IF matches.m3 = <<",">> THEN CallAction(matches.m1, <<",">>)
          ELSE IF matches.m4 # <<>> THEN CallAction(matches.m1, <<",", ".">> \o matches.m4)
          ELSE IF matches.m5 # <<>> THEN CallAction(matches.m1, <<",", ".">> \o matches.m5)
          ELSE FieldAction(matches.m1))
    ELSE IF matches.m3 = <<",">> THEN CallAction(matches.m1, <<",">>)
    ELSE IF matches.m4 # <<>> THEN CallAction(matches.m1, <<".">> \o matches.m4)
    ELSE IF matches.m5 # <<>> THEN CallAction(matches.m1, <<",", ".">> \o matches.m5)
    ELSE FieldAction(matches.m1)

\* Replacement passing the precision digits alone, without the "." in front
ReplacementNoDot(matches) ==
    IF matches.m2 = <<"=">>
    THEN matches.m1 \o <<"=">> \o
         (IF matches.m3 = <<",">> THEN CallAction(matches.m1, <<",">>)
          ELSE IF matches.m4 # <<>> THEN CallAction(matches.m1, matches.m4)
          ELSE IF matches.m5 # <<>> THEN CallAction(matches.m1, <<",", ".">> \o matches.m5)
          ELSE FieldAction(matches.m1))
    ELSE IF matches.m3 = <<",">> THEN CallAction(matches.m1, <<",">>)
    ELSE IF matches.m4 # <<>> THEN CallAction(matches.m1, matches.m4)
    ELSE IF matches.m5 # <<>> THEN CallAction(matches.m1, <<",", ".">> \o matches.m5)
    ELSE FieldAction(matches.m1)

\* the callback of ReplaceAllStringFunc: the switch over the capture groups
Replacement(matches) ==
    IF matches.m2 = <<"=">>
    THEN matches.m1 \o <<"=">> \o
         (IF matches.m3 = <<",">> THEN CallAction(matches.m1, <<",">>)
          ELSE IF matches.m4 # <<>> THEN CallAction(matches.m1, <<".">> \o matches.m4)
          ELSE IF matches.m5 # <<>> THEN CallAction(matches.m1, <<",", ".">> \o matches.m5)
          ELSE FieldAction(matches.m1))
    ELSE IF matches.m3 = <<",">> THEN CallAction(matches.m1, <<",">>)
    ELSE IF matches.m4 # <<>> THEN CallAction(matches.m1, <<".">> \o matches.m4)
    ELSE IF matches.m5 # <<>> THEN CallAction(matches.m1, <<",", ".">> \o matches.m5)
    ELSE FieldAction(matches.m1)

\* re.ReplaceAllStringFunc: leftmost non-overlapping matches, the rest copied
RECURSIVE ReplaceAllFrom(_, _)
ReplaceNext(s, i, matches) ==
    IF matches.ok THEN Replacement(matches) \o ReplaceAllFrom(s, matches.end)
    ELSE <<s[i]>> \o ReplaceAllFrom(s, i + 1)

ReplaceAllFrom(s, i) == IF i > Len(s) THEN <<>> ELSE ReplaceNext(s, i, MatchAt(s, i))

\* preprocess rewriting every brace on its own, "{" to "{{." and "}" to "}}"
preprocessEveryBrace(format) ==
    Concat([i \in 1..Len(format) |->
               IF format[i] = "{" THEN <<"{", "{", ".">>
               ELSE IF format[i] = "}" THEN <<"}", "}">>
               ELSE <<format[i]>>])

preprocess(format) == ReplaceAllFrom(format, 1)

\* ------------------------------------------------- text/template, as used
\* A node of the parsed template.  Interpolate hands text/template the
\* rewritten string; the actions that occur in it are a field ".key", a
\* number constant ".digits" (a dot followed by a digit starts a number, not
\* a field) and the call "formatNumber <operand> \"directive\"".  Any other
\* text between "{{" and "}}" over the characters drawn here is rejected by
\* the template lexer or parser.
Node(kind, text, arg) == [kind |-> kind, text |-> text, arg |-> arg]

BadNode == Node("bad", <<>>, <<>>)

AllIn(s, set) == \A i \in 1..Len(s) : s[i] \in set

\* ".key" or ".digits"
Operand(c) ==
    IF Len(c) >= 2 /\ c[1] = "." /\ AllIn(Tail(c), IdentSet)
    THEN IF c[2] \in DigitSet
         THEN IF AllIn(Tail(c), DigitSet) THEN Node("number", Tail(c), <<>>) ELSE BadNode
         ELSE Node("field", Tail(c), <<>>)
    ELSE BadNode

IndexOf1(s, a) ==
    LET J == {j \in 1..Len(s) : s[j] = a} IN IF J = {} THEN 0 ELSE Min(J)

\* the string literal lit, the last word of a call, with its operand op
CallWithLiteral(op, lit) ==
    IF op.kind # "bad" /\ Len(lit) >= 2 /\ lit[1] = "\"" /\ lit[Len(lit)] = "\""
       /\ ~Contains(SubSeq(lit, 2, Len(lit) - 1), "\"")
    THEN Node("call", SubSeq(lit, 2, Len(lit) - 1), <<op>>)
    ELSE BadNode

\* the words after "formatNumber ": an operand, a space, a string literal
CallWords(rest, sp) ==
    IF sp > 1
    THEN CallWithLiteral(Operand(SubSeq(rest, 1, sp - 1)), SubSeq(rest, sp + 1, Len(rest)))
    ELSE BadNode

CallRest(rest) == CallWords(rest, IndexOf1(rest, " "))

ParseCall(c, n) ==
    IF Len(c) > n + 1 /\ SubSeq(c, 1, n) = FormatNumberName /\ c[n + 1] = " "
    THEN CallRest(SubSeq(c, n + 2, Len(c)))
    ELSE BadNode

ParseOperandOr(c, op) == IF op.kind # "bad" THEN op ELSE ParseCall(c, Len(FormatNumberName))

ParseAction(c) == ParseOperandOr(c, Operand(c))

\* template.Parse: text up to the next "{{", then an action up to "}}"
RECURSIVE ParseFrom(_, _)
ParseClose(s, l, r) ==
    IF r = 0 THEN <<BadNode>>
    ELSE <<ParseAction(SubSeq(s, l + 2, r - 1))>> \o ParseFrom(s, r + 2)

ParseOpen(s, i, l) ==
    IF l = 0 THEN <<Node("text", SubSeq(s, i, Len(s)), <<>>)>>
    ELSE (IF l > i THEN <<Node("text", SubSeq(s, i, l - 1), <<>>)>> ELSE <<>>)
         \o ParseClose(s, l, IndexOf2(s, l + 2, "}", "}"))

ParseFrom(s, i) == IF i > Len(s) THEN <<>> ELSE ParseOpen(s, i, IndexOf2(s, i, "{", "{"))

HasBad(nodes) == \E i \in 1..Len(nodes) : nodes[i].kind = "bad"

ParsedAs(nodes) == [err |-> HasBad(nodes), nodes |-> nodes]

TemplateParse(s) == ParsedAs(ParseFrom(s, 1))

NoValue == <<"<", "n", "o", " ", "v", "a", "l", "u", "e", ">">>

Lookup(data, key) == IF key \in DOMAIN data THEN data[key] ELSE Absent

\* the float64 a number constant ".digits" denotes (up to three digits)
NumberConstant(ds) == FloatVal(FALSE, 0, ParsePrec(SubSeq(ds \o <<"0", "0">>, 1, 3)))

\* fmt.Fprint of a value, as the template prints the result of an action
PrintValue(v) ==
    IF v.kind = "absent" THEN NoValue
    ELSE IF v.kind = "string" THEN v.s
    ELSE IF v.kind = "float" THEN FormatG(v)
    ELSE (IF v.n < 0 THEN <<"-">> ELSE <<>>) \o Dec(Abs(v.n))

OperandValue(op, data) ==
    IF op.kind = "number" THEN NumberConstant(op.text) ELSE Lookup(data, op.text)

Failed == [err |-> TRUE, s |-> <<>>]

Printed(s) == [err |-> FALSE, s |-> s]

\* safeCall: a panic of the function is the call's error
CallResult(r) == IF r.panic THEN Failed ELSE Printed(r.s)

\* the argument checked against float64, then the call
CallWith(v, directive) == IF v.kind # "float" THEN Failed ELSE CallResult(formatNumber(v, directive))

\* one node of Execute
ExecNode(node, data) ==
    IF node.kind = "text" THEN Printed(node.text)
    ELSE IF node.kind = "call" THEN CallWith(OperandValue(node.arg[1], data), node.text)
    ELSE Printed(PrintValue(OperandValue(node, data)))

\* the buffer after a node and the nodes that follow it: what was written
\* before a failure stays in the buffer
ExecJoin(h, t) == [err |-> t.err, s |-> h.s \o t.s]

RECURSIVE Execute(_, _)
ExecRest(h, nodes, data) == IF h.err THEN Failed ELSE ExecJoin(h, Execute(Tail(nodes), data))

Execute(nodes, data) ==
    IF nodes = <<>> THEN Printed(<<>>) ELSE ExecRest(ExecNode(Head(nodes), data), nodes, data)

\* the loop of Interpolate over data: every int becomes a float64, in place
Widen(data) ==
    [k \in DOMAIN data |-> IF data[k].kind = "int" THEN ToFloat64(data[k]) ELSE data[k]]

\* the returns with output.String() returned on the error path as well
AfterExecutePartial(r, widened) ==
    IF r.err THEN [out |-> r.s, err |-> "execute", data |-> widened]
    ELSE [out |-> r.s, err |-> "nil", data |-> widened]

\* the returns of Interpolate after Execute, with the map as the loop left it
AfterExecute(r, widened) ==
    IF r.err THEN [out |-> <<>>, err |-> "execute", data |-> widened]
    ELSE [out |-> r.s, err |-> "nil", data |-> widened]

AfterWiden(t, widened) == AfterExecute(Execute(t.nodes, widened), widened)

\* Interpolate with the widening loop placed after Execute
AfterParseWidenLate(t, data) ==
    IF t.err THEN [out |-> <<>>, err |-> "parse", data |-> data]
    ELSE AfterExecute(Execute(t.nodes, data), Widen(data))

AfterParse(t, data) ==
    IF t.err THEN [out |-> <<>>, err |-> "parse", data |-> data]
    ELSE AfterWiden(t, Widen(data))

\* what one call of Interpolate returns and leaves in the caller's map
InterpolateResult(format, data) == AfterParse(TemplateParse(preprocess(format)), data)

\* ------------------------------------------------------------ inputs drawn
KeyK == <<"k">>

Key7 == <<"7">>

\* the format specs of the grammar, as written after the colon
FormatSpecs == {<<",">>, <<".", "2", "f">>, <<",", ".", "2", "f">>, <<",", ".", "0", "f">>}

Placeholder(key, echo, spec) ==
    <<"{">> \o key \o (IF echo THEN <<"=">> ELSE <<>>)
    \o (IF spec = <<>> THEN <<>> ELSE <<":">> \o spec) \o <<"}">>

PlaceholderSegments ==
    {Placeholder(KeyK, e, sp) : e \in BOOLEAN, sp \in FormatSpecs \cup {<<>>}}
    \cup {Placeholder(Key7, FALSE, <<>>), Placeholder(Key7, TRUE, <<>>),
          Placeholder(Key7, FALSE, <<",">>)}

\* literal text, lone braces, and brace text outside the grammar
OtherSegments ==
    {<<"a">>, <<"{">>, <<"}">>, <<"{", "k", ":", "a", "b", "c", "}">>}

Segments == PlaceholderSegments \cup OtherSegments

Templates == {Concat(ss) : ss \in UNION {[1..n -> Segments] : n \in 0..MaxSegs}}

BoundValues ==
    {StrVal(<<"s">>), IntVal(23), IntVal(0 - 1234567), Int64Val(23),
     FloatVal(FALSE, 1234, 500)}

Tables ==
    {d \in UNION {[S -> BoundValues] : S \in SUBSET {KeyK, Key7}} :
        Key7 \in DOMAIN d =>
            /\ d[Key7] = StrVal(<<"s">>)
            /\ KeyK \in DOMAIN d => d[KeyK] = StrVal(<<"s">>)}

\* values and directives handed to formatNumber directly
FmtValues ==
    {FloatVal(neg, ip, fr) : neg \in BOOLEAN, ip \in {0, 12, 123, 999, 1234, 123456, 1234567},
                             fr \in {0, 125, 500, 875}}

FmtDirectives ==
    {<<",">>, <<".", "0">>, <<".", "2">>, <<",", ".", "0">>, <<",", ".", "2">>, <<",", ".", "4">>, <<>>}

NotCalled == [panic |-> FALSE, msg |-> "not called", s |-> <<>>]

\* ------------------------------------------------------------------- state
VARIABLES
    format,     \* the template the caller passes
    data,       \* the caller's map, passed by reference
    held,       \* the caller's own record of the map before the last call
    out,        \* the string the last call returned
    err,        \* "none" before a call; "nil", "parse" or "execute" after it
    calls,      \* calls made so far
    panicked,   \* Eval panicked with the error
    value,      \* formatNumber called directly: its value,
    directive,  \*   its format,
    ret         \*   and what it returned

vars == <<format, data, held, out, err, calls, panicked, value, directive, ret>>

fmtIdle == value = FloatVal(FALSE, 0, 0) /\ directive = <<>> /\ ret = NotCalled

Init ==
    /\ format \in Templates
    /\ data \in Tables
    /\ held = data
    /\ out = <<>>
    /\ err = "none"
    /\ calls = 0
    /\ panicked = FALSE
    /\ fmtIdle

\* the caller receives the results; its map is the one the call wrote to
Return(r) == out' = r.out /\ err' = r.err /\ data' = r.data

ReturnOrPanic(r) == Return(r) /\ panicked' = (r.err # "nil")

\* result, err := Interpolate(format, data)
Interpolate ==
    /\ calls < MaxCalls
    /\ ~panicked
    /\ Return(InterpolateResult(format, data))
    /\ held' = data
    /\ calls' = calls + 1
    /\ UNCHANGED <<format, panicked, value, directive, ret>>

\* Eval(format, data): Interpolate, and panic(err) if it failed
Eval ==
    /\ calls < MaxCalls
    /\ ~panicked
    /\ ReturnOrPanic(InterpolateResult(format, data))
    /\ held' = data
    /\ calls' = calls + 1
    /\ UNCHANGED <<format, value, directive, ret>>

Next == Interpolate \/ Eval

Spec == Init /\ [][Next]_vars

\* formatNumber on its own, over values and directives drawn at the start
FmtInit ==
    /\ value \in FmtValues
    /\ directive \in FmtDirectives
    /\ ret = NotCalled
    /\ format = <<>>
    /\ data = <<>>
    /\ held = <<>>
    /\ out = <<>>
    /\ err = "none"
    /\ calls = 0
    /\ panicked = FALSE

CallFormatNumber ==
    /\ ret = NotCalled
    /\ ret' = formatNumber(value, directive)
    /\ UNCHANGED <<format, data, held, out, err, calls, panicked, value, directive>>

FmtNext == CallFormatNumber

FmtSpec == FmtInit /\ [][FmtNext]_vars

\* ------------------------------------------------------ notions the claims use
Returned == calls > 0

\* the placeholders of a template: the matches of the scan, with their starts
RECURSIVE MatchesFrom(_, _)
MatchesFrom(s, i) ==
    IF i > Len(s) THEN <<>>
    ELSE LET m == MatchAt(s, i)
         IN IF m.ok THEN <<[start |-> i, m |-> m]>> \o MatchesFrom(s, m.end)
            ELSE MatchesFrom(s, i + 1)

Placeholders(s) == MatchesFrom(s, 1)

\* a brace of the template that belongs to no placeholder
HasStrayBrace(s) ==
    \E i \in 1..Len(s) :
        /\ s[i] \in {"{", "}"}
        /\ \A j \in 1..Len(Placeholders(s)) :
               i < Placeholders(s)[j].start \/ i >= Placeholders(s)[j].m.end

\* the template is exactly one placeholder
IsOnePlaceholder(s) == s # <<>> /\ MatchAt(s, 1).ok /\ MatchAt(s, 1).end = Len(s) + 1

HasOpenOpen(s) == IndexOf2(s, 1, "{", "{") # 0

\* the template cut at its placeholders: literal characters and placeholders
RECURSIVE PiecesFrom(_, _)
PiecesFrom(s, i) ==
    IF i > Len(s) THEN <<>>
    ELSE LET m == MatchAt(s, i)
         IN IF m.ok THEN <<SubSeq(s, i, m.end - 1)>> \o PiecesFrom(s, m.end)
            ELSE <<<<s[i]>>>> \o PiecesFrom(s, i + 1)

\* each piece on its own: a literal character as it is, a placeholder as
\* Interpolate substitutes it when it is the whole template
RECURSIVE PieceWise(_, _)
PieceWise(pieces, d) ==
    IF pieces = <<>> THEN <<>>
    ELSE (IF IsOnePlaceholder(Head(pieces)) THEN InterpolateResult(Head(pieces), d).out
          ELSE Head(pieces))
         \o PieceWise(Tail(pieces), d)

\* the echo placeholder s without its "="
Unecho(s) ==
    LET n == Len(MatchAt(s, 1).m1)
    IN SubSeq(s, 1, n + 1) \o SubSeq(s, n + 3, Len(s))

\* ------------------------------------------------------------------ claims
\* C1: Interpolate never mutates the caller's binding table: after it returns,
\* with a result or an error, every key is bound to the same value of the
\* same type as before the call.
C1_TableUnchanged == Returned => data = held

\* C2: a placeholder of any variant whose identifier is absent from the
\* binding table makes Interpolate return an error, never a string with a
\* blank or filler in its place.
C2_MissingKeyIsError ==
    (Returned /\ \E j \in 1..Len(Placeholders(format)) :
                    Placeholders(format)[j].m.m1 \notin DOMAIN held)
    => err # "nil"

\* C3: a template with brace text that does not match the placeholder grammar
\* makes Interpolate return an error; the brace text is never copied to a
\* successful result.
C3_StrayBraceIsError == (Returned /\ HasStrayBrace(format)) => err # "nil"

\* C4: a placeholder with a format spec whose identifier is bound to a
\* non-numeric value makes Interpolate return an error.
C4_FormatOfStringIsError ==
    (Returned /\ \E j \in 1..Len(Placeholders(format)) :
                    LET m == Placeholders(format)[j].m
                    IN m.m3 # <<>> /\ Lookup(held, m.m1).kind = "string")
    => err # "nil"

\* C5 as stated: every template without a placeholder is returned unchanged,
\* with no error, whatever the table.
C5_Original ==
    (Returned /\ Placeholders(format) = <<>>) => (err = "nil" /\ out = format)

\* C5 as amended: a template without a placeholder and without "{{" is
\* returned unchanged with no error; and when Interpolate succeeds on a
\* template without "{{", its output is the template's literal text, unchanged
\* and in order, with each placeholder's substitution in its place.
C5_LiteralPassThrough ==
    (Returned /\ ~HasOpenOpen(format)) =>
        /\ Placeholders(format) = <<>> => (err = "nil" /\ out = format)
        /\ err = "nil" => out = PieceWise(PiecesFrom(format, 1), held)

C5_Witness ==
    /\ Returned /\ err = "nil" /\ ~HasOpenOpen(format)
    /\ Contains(format, "a") /\ HasStrayBrace(format)
    /\ Placeholders(format) # <<>>

\* C6: for every identifier k of [A-Za-z0-9_]+, digits included, and every
\* string s, Interpolate("{k}", {k: s}) succeeds and returns s.
C6_StringIdentity ==
    (/\ Returned /\ IsOnePlaceholder(format)
     /\ MatchAt(format, 1).m2 = <<>> /\ MatchAt(format, 1).m3 = <<>>
     /\ Lookup(held, MatchAt(format, 1).m1).kind = "string")
    => (err = "nil" /\ out = held[MatchAt(format, 1).m1].s)

\* C7: a plain placeholder bound to an integer n prints the base-10 digits of
\* n with an optional minus sign, whatever the magnitude of n.
C7_IntegerDigits ==
    (Returned /\ format = Placeholder(KeyK, FALSE, <<>>) /\ Lookup(held, KeyK).kind = "int")
    => (err = "nil" /\ out = PrintValue(held[KeyK]))

\* C8: an echo placeholder only adds the prefix "key=": it fails exactly when
\* the same placeholder without "=" fails, and otherwise its output is "key="
\* followed by the output of the placeholder without "=".
C8_EchoPrefix ==
    (Returned /\ IsOnePlaceholder(format) /\ MatchAt(format, 1).m2 = <<"=">>)
    => LET plain == InterpolateResult(Unecho(format), held)
       IN /\ (err = "nil") <=> (plain.err = "nil")
          /\ err = "nil" => out = MatchAt(format, 1).m1 \o <<"=">> \o plain.out

C8_Witness ==
    /\ Returned /\ err = "nil"
    /\ format = Placeholder(KeyK, TRUE, <<",", ".", "2", "f">>)
    /\ out = <<"k", "=", "1", ",", "2", "3", "4", ".", "5", "0">>

\* C9: for a negative value and a grouping spec, the formatted string keeps
\* the leading minus sign and no separator directly follows the sign.
C9_SignNotGrouped ==
    (/\ ret # NotCalled /\ ~ret.panic
     /\ value.neg /\ (value.ip > 0 \/ value.fr > 0)
     /\ directive # <<>> /\ directive[1] = ",")
    => (ret.s[1] = "-" /\ ret.s[2] # ",")

\* C10: formatting with grouping and a precision N >= 0 never fails, and the
\* result has exactly N decimal digits, ungrouped, after a single point.
C10_GroupPrecisionTotal ==
    (ret # NotCalled /\ Len(directive) > 2 /\ directive[1] = "," /\ directive[2] = ".")
    => LET N     == ParsePrec(SubSeq(directive, 3, Len(directive)))
           parts == Split(ret.s, ".")
       IN /\ ~ret.panic
          /\ N > 0 => (Len(parts) = 2 /\ Len(parts[2]) = N /\ ~Contains(parts[2], ","))

C12_IntegerAsFloat ==
    (/\ Returned /\ IsOnePlaceholder(format) /\ MatchAt(format, 1).m3 # <<>>
     /\ Lookup(held, MatchAt(format, 1).m1).kind \in {"int", "int64"})
    => LET k       == MatchAt(format, 1).m1
           asFloat == InterpolateResult(format, [held EXCEPT ![k] = ToFloat64(held[k])])
       IN err = "nil" /\ out = asFloat.out

\* C13: Interpolate yields no partial output: it returns either the complete
\* string with a nil error, or an error with the empty string; when a later
\* placeholder fails, nothing already substituted for earlier ones is returned.
C13_NoPartialOutput ==
    Returned =>
        /\ err # "nil" => out = <<>>
        /\ err = "nil" => out = Execute(TemplateParse(preprocess(format)).nodes, data).s

C13_Witness ==
    /\ Returned /\ err = "execute" /\ out = <<>>
    /\ format = Placeholder(KeyK, TRUE, <<>>) \o Placeholder(KeyK, FALSE, <<",">>)
    /\ Execute(TemplateParse(preprocess(format)).nodes, data).s = <<"k", "=", "s">>

\* C14: the invalid-format failure of formatNumber is unreachable from
\* preprocess: every directive it emits into a formatNumber call is taken by
\* one of the three formatting branches, never by panic("Invalid format").
C14_NoInvalidFormat ==
    Returned =>
        LET nodes == ParseFrom(preprocess(format), 1)
        IN \A i \in 1..Len(nodes) :
               nodes[i].kind = "call" =>
                   \A v \in {FloatVal(FALSE, 1234, 500), FloatVal(TRUE, 0, 125)} :
                       formatNumber(v, nodes[i].text).msg # "Invalid format"

C14_Witness ==
    /\ Returned /\ err = "nil"
    /\ format = Placeholder(KeyK, FALSE, <<".", "2", "f">>)
    /\ out = <<"1", "2", "3", "4", ".", "5", "0">>

\* C15: repeated calls with the same template and the same table object
\* return the same result every time: whatever the first call did to the
\* table does not change the outcome of a later call.
C15_RepeatedCallsAgree == [][Returned => (out' = out /\ err' = err)]_vars

C15_Witness ==
    /\ calls = 2 /\ err = "nil"
    /\ format = Placeholder(KeyK, FALSE, <<>>)
    /\ data = (KeyK :> FloatVal(TRUE, 1234567, 0))
    /\ out = <<"-", "1", ".", "2", "3", "4", "5", "6", "7", "e", "+", "0", "6">>

====
